---- MODULE Spec2Model ----
(***************************************************************************)
(* A model of the QR-code web service: the HTTP handler HandleRequest      *)
(* (src/handlers/handler.go), the upload helper UploadFile                 *)
(* (src/utils/utils.go) and the qrcode package's Generate,                 *)
(* GenerateWithWatermark, addWatermark and resizeWatermark (the listing    *)
(* that follows the handler in src/handlers/handler.go).                   *)
(*                                                                         *)
(* Two specifications:                                                     *)
(*   Spec       one HTTP request handled by HandleRequest;                 *)
(*   SpecBlend  one call of addWatermark on a bounded set of byte blobs.   *)
(***************************************************************************)
EXTENDS Integers, Sequences, FiniteSets, TLC

VARIABLES
    request,    \* the request HandleRequest was called with
    response,   \* what the http.ResponseWriter has sent
    calls,      \* the collaborators HandleRequest called, in order
    blendIn,    \* addWatermark's arguments (qrCode, watermarkData)
    blendOut    \* addWatermark's result and what it did on the way

vars == <<request, response, calls, blendIn, blendOut>>

----------------------------------------------------------------------------
(* Bounds of the model.                                                    *)

\* Base (QR code) images are W x H with 1 <= W <= MaxBaseWidth.
MaxBaseWidth == 9
\* The size form field is a string of at most MaxSizeLen characters.
MaxSizeLen == 3

----------------------------------------------------------------------------
(* Go values.                                                              *)

\* A nil error; fmt prints it as "<nil>".
Nil == "<nil>"

Min(a, b) == IF a < b THEN a ELSE b
Max(a, b) == IF a > b THEN a ELSE b

----------------------------------------------------------------------------
(* Images, pixels and rectangles (image, image/color).                     *)

\* A pixel: one colour channel v and alpha a, 8 bits each, not premultiplied.
Pixel(v, a) == [v |-> v, a |-> a]

\* An image is [w, h, px]: its bounds are (0,0)-(w,h) and px[y][x] is the pixel
\* at (x, y). NoImage is the image no decode produced.
NoImage == [w |-> 0, h |-> 0, px |-> [y \in 0..(-1) |-> [x \in 0..(-1) |-> Pixel(0, 0)]]]

\* image.Rectangle: Min is (x0, y0), Max is (x1, y1), Max exclusive.
Rect(x0, y0, x1, y1) == [x0 |-> x0, y0 |-> y0, x1 |-> x1, y1 |-> y1]
ZR == Rect(0, 0, 0, 0)
Pt(x, y) == [x |-> x, y |-> y]

Bounds(img) == Rect(0, 0, img.w, img.h)
Dx(r) == r.x1 - r.x0
Dy(r) == r.y1 - r.y0
RectEmpty(r) == r.x0 >= r.x1 \/ r.y0 >= r.y1
RectAdd(r, p) == Rect(r.x0 + p.x, r.y0 + p.y, r.x1 + p.x, r.y1 + p.y)

\* Rectangle.Intersect: the largest rectangle in both; ZR when they do not overlap.
Intersect(r, s) ==
    LET t == Rect(Max(r.x0, s.x0), Max(r.y0, s.y0), Min(r.x1, s.x1), Min(r.y1, s.y1))
    IN  IF RectEmpty(t) THEN ZR ELSE t

InRect(x, y, r) == r.x0 <= x /\ x < r.x1 /\ r.y0 <= y /\ y < r.y1

----------------------------------------------------------------------------
(* Byte blobs and image/png.                                               *)

\* A byte slice is [sig, ok, img]: sig is the file signature its first bytes
\* carry ("png", "jpeg", or "none" for no bytes at all), ok whether the bytes
\* after the signature are a complete PNG stream, img the image they encode.
PNG(img) == [sig |-> "png", ok |-> TRUE, img |-> img]
TruncatedPNG == [sig |-> "png", ok |-> FALSE, img |-> NoImage]
JPEG == [sig |-> "jpeg", ok |-> FALSE, img |-> NoImage]
NoBytes == [sig |-> "none", ok |-> FALSE, img |-> NoImage]

\* png.Decode: the image of a complete PNG stream, an error for anything else.
pngDecode(b) ==
    IF b.sig = "png" /\ b.ok THEN [img |-> b.img, err |-> Nil]
    ELSE IF b.sig = "png" \/ b.sig = "none" THEN [img |-> NoImage, err |-> "unexpected EOF"]
    ELSE [img |-> NoImage, err |-> "png: invalid format: not a PNG file"]

\* png.Encode: refuses an image with no pixels and then writes nothing.
pngEncode(img) ==
    IF img.w <= 0 \/ img.h <= 0
    THEN [bytes |-> NoBytes, err |-> "png: invalid format: invalid image size"]
    ELSE [bytes |-> PNG(img), err |-> Nil]

\* http.DetectContentType: decided by the leading signature bytes alone.
DetectContentType(b) ==
    IF b.sig = "png" THEN "image/png"
    ELSE IF b.sig = "jpeg" THEN "image/jpeg"
    ELSE "text/plain; charset=utf-8"

----------------------------------------------------------------------------
(* image/draw.                                                             *)

\* The pixel an *image.RGBA stores for source pixel s (drawNRGBASrc):
\* its colour premultiplied by its alpha, in 16-bit arithmetic.
srcPixel(s) ==
    LET sa == s.a * 257
        sr == (s.v * sa) \div 255
    IN  Pixel(sr \div 256, sa \div 256)

\* Source pixel s composed over destination pixel d (drawNRGBAOver):
\* a := (m - sa) * 0x101 and d = (d*a/m + s) >> 8. As m = 255 * 0x101, d*a/m is
\* d*(m - sa)/255, which is how it is written here.
overPixel(s, d) ==
    LET m  == 65535
        sa == s.a * 257
        sr == (s.v * sa) \div 255
    IN  Pixel(((d.v * (m - sa)) \div 255 + sr) \div 256,
              ((d.a * (m - sa)) \div 255 + sa) \div 256)

\* draw.clip: r cut down to dst's bounds and to src's bounds as placed by sp,
\* and sp moved by as much as r's Min moved.
clip(dst, r, src, sp) ==
    LET r1 == Intersect(r, Bounds(dst))
        r2 == Intersect(r1, RectAdd(Bounds(src), Pt(r.x0 - sp.x, r.y0 - sp.y)))
    IN  [r |-> r2, sp |-> Pt(sp.x + (r2.x0 - r.x0), sp.y + (r2.y0 - r.y0))]

\* draw.Draw(dst, r, src, sp, op): every pixel of the clipped r is replaced
\* (op = "Src") or composed over (op = "Over"); no other pixel of dst changes.
Draw(dst, r, src, sp, op) ==
    LET c == clip(dst, r, src, sp)
    IN  IF RectEmpty(c.r) THEN dst
        ELSE [dst EXCEPT !.px =
                [y \in 0..(dst.h - 1) |-> [x \in 0..(dst.w - 1) |->
                    IF InRect(x, y, c.r)
                    THEN LET s == src.px[c.sp.y + (y - c.r.y0)][c.sp.x + (x - c.r.x0)]
                         IN  IF op = "Src" THEN srcPixel(s) ELSE overPixel(s, dst.px[y][x])
                    ELSE dst.px[y][x]]]]

\* image.NewRGBA(r), r.Min = (0,0): every pixel transparent black.
NewRGBA(r) ==
    [w |-> Dx(r), h |-> Dy(r),
     px |-> [y \in 0..(Dy(r) - 1) |-> [x \in 0..(Dx(r) - 1) |-> Pixel(0, 0)]]]

----------------------------------------------------------------------------
(* github.com/nfnt/resize.                                                 *)

\* resize.Resize(width, 0, img, resize.Lanczos3), from the library's source.
\* calcFactors: with width 0 as well as height 0 both scales are 1, otherwise
\* both are Dx/width. A zero width or height is then replaced by
\* uint(0.7 + Dx/scale) or uint(0.7 + Dy/scale).
resizeWidth(width, img) == IF width = 0 THEN img.w ELSE width
resizeHeight(width, img) ==
    IF width = 0 THEN img.h
    ELSE (7 * img.w + 10 * img.h * width) \div (10 * img.w)

\* "Trivial case: return input image" when the size does not change; otherwise
\* an image of the new size. The Lanczos kernel is not modelled: each output
\* pixel takes the source pixel at its scaled position, which like the kernel
\* keeps a uniform image uniform.
Resize(width, img) ==
    LET w == resizeWidth(width, img)
        h == resizeHeight(width, img)
    IN  IF w = img.w /\ h = img.h THEN img
        ELSE [w |-> w, h |-> h,
              px |-> [y \in 0..(h - 1) |-> [x \in 0..(w - 1) |->
                        img.px[(y * img.h) \div h][(x * img.w) \div w]]]]

----------------------------------------------------------------------------
(* The qrcode package: resizeWatermark, GenerateWithWatermark,             *)
(* addWatermark.                                                           *)

\* resizeWatermark(watermark, width): decode, resize, encode; the error of
\* png.Encode is dropped, so a failed encode returns no bytes and no error.
resizeWatermark(watermark, width) ==
    LET d == pngDecode(watermark)
    IN  IF d.err # Nil
        THEN [bytes |-> NoBytes,
              err   |-> "could not decode watermark image: " \o d.err,
              steps |-> <<"decode watermark">>]
        ELSE LET m == Resize(width, d.img)
             IN  [bytes |-> pngEncode(m).bytes,
                  err   |-> Nil,
                  steps |-> <<"decode watermark", "resize watermark", "encode watermark">>]

\* watermarkWidth := uint(float64(qrCodeData.Bounds().Dx()) * 0.25)
watermarkWidth(qrCodeData) == (Dx(Bounds(qrCodeData)) * 25) \div 100

\* A variant of offset that centres the y axis by the heights.
offsetByHeights(qrCodeData, watermarkImage) ==
    Pt(Dx(Bounds(qrCodeData)) \div 2 - Dx(Bounds(watermarkImage)) \div 2,
       Dy(Bounds(qrCodeData)) \div 2 - Dy(Bounds(watermarkImage)) \div 2)

\* offset := image.Pt(halfQrCodeWidth - halfWatermarkWidth, the same again)
offset(qrCodeData, watermarkImage) ==
    LET halfQrCodeWidth    == Dx(Bounds(qrCodeData)) \div 2
        halfWatermarkWidth == Dx(Bounds(watermarkImage)) \div 2
    IN  Pt(halfQrCodeWidth - halfWatermarkWidth, halfQrCodeWidth - halfWatermarkWidth)

\* A variant of canvas that draws the watermark with draw.Src.
canvasDrawnWithSrc(qrCodeData, watermarkImage) ==
    Draw(Draw(NewRGBA(Bounds(qrCodeData)), Bounds(qrCodeData), qrCodeData, Pt(0, 0), "Src"),
         RectAdd(Bounds(watermarkImage),
                 Pt(Dx(Bounds(qrCodeData)) \div 2 - Dx(Bounds(watermarkImage)) \div 2,
                    Dx(Bounds(qrCodeData)) \div 2 - Dx(Bounds(watermarkImage)) \div 2)),
         watermarkImage, Pt(0, 0), "Src")

\* The canvas m: a new RGBA image of the QR code's bounds, the QR code drawn
\* onto it with draw.Src, then the watermark at the offset with draw.Over.
canvas(qrCodeData, watermarkImage) ==
    LET watermarkImageBounds == Bounds(qrCodeData)
        m0 == NewRGBA(watermarkImageBounds)
        m1 == Draw(m0, watermarkImageBounds, qrCodeData, Pt(0, 0), "Src")
    IN  Draw(m1, RectAdd(Bounds(watermarkImage), offset(qrCodeData, watermarkImage)),
             watermarkImage, Pt(0, 0), "Over")

\* What addWatermark returns, with what it did on the way: out and err are the
\* Go results; steps the library calls made, in order; the rest its locals
\* (NoImage, 0 for those it never assigned).
BlendFailed(err, steps, qrCodeData) ==
    [out |-> NoBytes, err |-> err, steps |-> steps, qrCodeData |-> qrCodeData,
     watermarkWidth |-> 0, watermarkImage |-> NoImage, offset |-> Pt(0, 0), m |-> NoImage]

\* addWatermark after the QR code decoded: from watermarkWidth to the return.
blendDecoded(qrCodeData, watermarkData) ==
    LET width     == watermarkWidth(qrCodeData)
        watermark == resizeWatermark(watermarkData, width)
        steps1    == <<"decode qrCode">> \o watermark.steps
    IN  IF watermark.err # Nil
        THEN BlendFailed("Could not resize the watermark image.%!(EXTRA *errors.errorString="
                            \o watermark.err \o ")", steps1, qrCodeData)
        ELSE LET d      == pngDecode(watermark.bytes)
                 steps2 == Append(steps1, "decode resized watermark")
             IN  IF d.err # Nil
                 THEN BlendFailed("could not decode watermark: " \o d.err, steps2, qrCodeData)
                 ELSE LET m == canvas(qrCodeData, d.img)
                      IN  [out |-> pngEncode(m).bytes, err |-> Nil,
                           steps |-> steps2 \o <<"draw qrCode", "draw watermark", "encode">>,
                           qrCodeData |-> qrCodeData, watermarkWidth |-> width,
                           watermarkImage |-> d.img,
                           offset |-> offset(qrCodeData, d.img), m |-> m]

\* A variant of addWatermark that does not test the error of the first decode.
addWatermarkIgnoringBaseError(qrCode, watermarkData) ==
    blendDecoded(pngDecode(qrCode).img, watermarkData)

\* addWatermark(qrCode, watermarkData)
addWatermark(qrCode, watermarkData) ==
    LET d == pngDecode(qrCode)
    IN  IF d.err # Nil
        THEN BlendFailed("could not decode QR code: " \o d.err, <<"decode qrCode">>, NoImage)
        ELSE blendDecoded(d.img, watermarkData)

\* The answer of the external encoder qrcode.Encode(content, qrcode.Medium,
\* size) is an input of the model: [png, err].
\* Generate(): the encoder's bytes, or its error wrapped.
Generate(code, encoder) ==
    LET call == <<[fn |-> "qrcode.Encode", content |-> code.Content, size |-> code.Size]>>
    IN  IF encoder.err # Nil
        THEN [bytes |-> NoBytes, calls |-> call,
              err |-> "could not generate a QR code: " \o encoder.err]
        ELSE [bytes |-> encoder.png, err |-> Nil, calls |-> call]

\* GenerateWithWatermark after addWatermark returned blend.
watermarked(qrCode, blend) ==
    IF blend.err # Nil
    THEN [bytes |-> NoBytes, calls |-> Append(qrCode.calls, [fn |-> "addWatermark"]),
          err |-> "could not add watermark to QR code: " \o blend.err]
    ELSE [bytes |-> blend.out, err |-> Nil,
          calls |-> Append(qrCode.calls, [fn |-> "addWatermark"])]

\* GenerateWithWatermark after Generate returned qrCode.
generated(qrCode, watermark) ==
    IF qrCode.err # Nil
    THEN [bytes |-> NoBytes, err |-> qrCode.err, calls |-> qrCode.calls]
    ELSE watermarked(qrCode, addWatermark(qrCode.bytes, watermark))

\* GenerateWithWatermark(watermark): Generate, then addWatermark on its bytes.
GenerateWithWatermark(code, encoder, watermark) ==
    generated(Generate(code, encoder), watermark)

----------------------------------------------------------------------------
(* strconv.Atoi.                                                           *)

Digits == <<"0", "1", "2", "3", "4", "5", "6", "7", "8", "9">>
IsDigit(c) == \E i \in 1..10 : Digits[i] = c
DigitValue(c) == (CHOOSE i \in 1..10 : Digits[i] = c) - 1

RECURSIVE DecimalValue(_)
DecimalValue(s) ==
    IF Len(s) = 0 THEN 0
    ELSE 10 * DecimalValue(SubSeq(s, 1, Len(s) - 1)) + DigitValue(s[Len(s)])

\* strconv.Atoi(s), s a sequence of characters: an optional sign, then one or
\* more decimal digits and nothing else. (A value outside int is a range error;
\* no string of MaxSizeLen characters is that long.)
Atoi(s) ==
    LET signed == Len(s) > 0 /\ (s[1] = "-" \/ s[1] = "+")
        digits == IF signed THEN Tail(s) ELSE s
    IN  IF Len(digits) = 0 \/ \E i \in 1..Len(digits) : ~IsDigit(digits[i])
        THEN [n |-> 0, err |-> "strconv.Atoi: parsing: invalid syntax"]
        ELSE LET n == IF s[1] = "-" THEN -DecimalValue(digits) ELSE DecimalValue(digits)
             IN  [n |-> n, err |-> Nil]

----------------------------------------------------------------------------
(* net/http: the response writer, the form file, encoding/json.            *)

\* The writer: header holds the values of Content-Type; status is 0 until the
\* header is sent, sent is the Content-Type values that went out with it, body
\* the chunks written.
NewWriter == [header |-> <<>>, status |-> 0, sent |-> <<>>, body |-> <<>>]
\* Header().Set replaces the values of the key, Header().Add appends one.
HeaderSet(w, value) == [w EXCEPT !.header = <<value>>]
HeaderAdd(w, value) == [w EXCEPT !.header = Append(@, value)]
\* WriteHeader sends the status and the header as it is then, once.
WriteHeader(w, code) ==
    IF w.status # 0 THEN w ELSE [w EXCEPT !.status = code, !.sent = w.header]
\* Write sends the header with 200 if it was not sent yet, then the chunk.
Write(w, chunk) == [WriteHeader(w, 200) EXCEPT !.body = Append(@, chunk)]

\* json.Marshal of a Go string: a JSON string, not an object.
jsonMarshal(v) == [type |-> "string", str |-> v]
\* json.NewEncoder(w).Encode(v)
Encode(w, v) == Write(w, [kind |-> "json", value |-> jsonMarshal(v)])

ErrMissingFile == "http: no such file"
ErrNotMultipart == "request Content-Type isn't multipart/form-data"
NilFile == [isNil |-> TRUE, data |-> NoBytes, readErr |-> FALSE]

\* request.FormFile("watermark"): the file of a multipart form that has one,
\* ErrMissingFile for a multipart form without, and the error of
\* ParseMultipartForm for a body that is no multipart form; no file with an error.
FormFile(req) ==
    IF req.form = "file"
    THEN [file |-> [isNil |-> FALSE, data |-> req.watermark, readErr |-> req.readErr],
          err |-> Nil]
    ELSE IF req.form = "missing" THEN [file |-> NilFile, err |-> ErrMissingFile]
    ELSE [file |-> NilFile, err |-> ErrNotMultipart]

\* utils.UploadFile(file): io.Copy into a buffer. Reading a nil multipart.File
\* is a nil dereference: the call panics.
UploadFile(file) ==
    IF file.isNil THEN [bytes |-> NoBytes, err |-> Nil, panic |-> TRUE]
    ELSE IF file.readErr
    THEN [bytes |-> NoBytes, err |-> "could not upload file. unexpected EOF", panic |-> FALSE]
    ELSE [bytes |-> file.data, err |-> Nil, panic |-> FALSE]

----------------------------------------------------------------------------
(* The inputs the model draws from.                                        *)

\* The size field: every string of at most MaxSizeLen of these characters.
SizeChars == {"0", "1", "-", "+", "x"}
SizeStrings == UNION {[1..n -> SizeChars] : n \in 0..MaxSizeLen}
Contents == {"", "https://twilio.com"}

\* A QR code raster: opaque, its pixels differing from place to place.
BaseImage(w, h) ==
    [w |-> w, h |-> h,
     px |-> [y \in 0..(h - 1) |-> [x \in 0..(w - 1) |-> Pixel(((x + 2 * y) % 3) * 100, 255)]]]
\* A uniform opaque gray raster.
GrayImage(w, h) ==
    [w |-> w, h |-> h, px |-> [y \in 0..(h - 1) |-> [x \in 0..(w - 1) |-> Pixel(128, 255)]]]
\* A watermark: opaque, fully transparent (with a colour all the same), or
\* with alpha 0, 128 and 255 in turn.
OverlayKinds == {"opaque", "clear", "mixed"}
OverlayImage(kind, w, h) ==
    [w |-> w, h |-> h,
     px |-> [y \in 0..(h - 1) |-> [x \in 0..(w - 1) |->
        IF kind = "opaque" THEN Pixel(250, 255)
        ELSE IF kind = "clear" THEN Pixel(250, 0)
        ELSE Pixel(250, <<0, 128, 255>>[((x + y) % 3) + 1])]]]
OverlayDims == {<<1, 1>>, <<2, 2>>, <<3, 2>>, <<4, 1>>, <<5, 5>>, <<12, 12>>}

Bases ==
    {PNG(BaseImage(W, W)) : W \in 1..MaxBaseWidth}
        \cup {PNG(BaseImage(W, 4)) : W \in 1..MaxBaseWidth}
        \cup {TruncatedPNG, NoBytes}
Overlays ==
    {PNG(OverlayImage(k, d[1], d[2])) : k \in OverlayKinds, d \in OverlayDims}
        \cup {JPEG, TruncatedPNG, NoBytes}
\* A 256 x 256 opaque gray base with a 100 x 100 opaque watermark.
ScenarioA == <<PNG(GrayImage(256, 256)), PNG(OverlayImage("opaque", 100, 100))>>
BlendInputs == (Bases \X Overlays) \cup {ScenarioA}

\* What the encoder answers: a QR code raster, or an error.
EncoderAnswers ==
    {[png |-> PNG(BaseImage(8, 8)), err |-> Nil],
     [png |-> NoBytes, err |-> "content too long to encode"]}
Uploads ==
    {PNG(OverlayImage("mixed", 2, 2)), PNG(OverlayImage("opaque", 4, 1)),
     JPEG, TruncatedPNG, NoBytes}

\* A request: the two form values, what the watermark form file is ("file",
\* "missing", or "error" for a body that is no multipart form), the file's
\* bytes and whether reading it fails, and the encoder's answer.
Requests ==
    {[content |-> c, size |-> s, form |-> "file", watermark |-> u, readErr |-> r, encoder |-> e] :
        c \in Contents, s \in SizeStrings, u \in Uploads, r \in BOOLEAN, e \in EncoderAnswers}
    \cup
    {[content |-> c, size |-> s, form |-> f, watermark |-> NoBytes, readErr |-> FALSE, encoder |-> e] :
        c \in Contents, s \in SizeStrings, f \in {"missing", "error"}, e \in EncoderAnswers}

NoRequest ==
    [content |-> "", size |-> <<>>, form |-> "none", watermark |-> NoBytes,
     readErr |-> FALSE, encoder |-> [png |-> NoBytes, err |-> Nil]]
NoCall == [called |-> FALSE, qrCode |-> NoBytes, watermarkData |-> NoBytes]

----------------------------------------------------------------------------
(* HandleRequest.                                                          *)

\* A 400 answer: WriteHeader(400), then the message through the JSON encoder.
badRequest(w, message, called) ==
    [w |-> Encode(WriteHeader(w, 400), message), calls |-> called, panic |-> FALSE]

\* A 200 answer: the bytes written after Content-Type was changed by set,
\* which is "Set" or "Add".
imageAnswer(w, set, bytes, called) ==
    [w |-> Write(IF set = "Set" THEN HeaderSet(w, "image/png") ELSE HeaderAdd(w, "image/png"),
                 [kind |-> "bytes", value |-> bytes]),
     calls |-> called, panic |-> FALSE]

\* No watermark: the answer once Generate returned codeData.
answerGenerated(w, codeData) ==
    IF codeData.err # Nil
    THEN badRequest(w, "Could not generate QR code. " \o codeData.err,
                    <<[fn |-> "Generate"]>> \o codeData.calls)
    ELSE imageAnswer(w, "Add", codeData.bytes, <<[fn |-> "Generate"]>> \o codeData.calls)

\* With a watermark: the answer once GenerateWithWatermark returned codeData.
answerWatermarked(w, codeData, called) ==
    IF codeData.err # Nil
    THEN badRequest(w, "Could not generate QR code with the watermark image. " \o codeData.err,
                    called \o <<[fn |-> "GenerateWithWatermark"]>> \o codeData.calls)
    ELSE imageAnswer(w, "Set", codeData.bytes,
                     called \o <<[fn |-> "GenerateWithWatermark"]>> \o codeData.calls)

\* HandleRequest once UploadFile returned watermark: err is still the error of
\* UploadFile when it is tested after DetectContentType.
uploaded(w, req, qrCode, watermark, called) ==
    IF watermark.panic THEN [w |-> w, calls |-> called, panic |-> TRUE]
    ELSE IF watermark.err # Nil
    THEN badRequest(w, "Could not upload the watermark image." \o watermark.err, called)
    ELSE IF watermark.err # Nil
    THEN badRequest(w, "Provided watermark image is a " \o watermark.err \o " not a PNG. "
                         \o DetectContentType(watermark.bytes) \o ".",
                    Append(called, [fn |-> "DetectContentType"]))
    ELSE answerWatermarked(w, GenerateWithWatermark(qrCode, req.encoder, watermark.bytes),
                           Append(called, [fn |-> "DetectContentType"]))

\* HandleRequest once FormFile returned ff: content and size are valid.
handleValid(w, req, qrCode, ff) ==
    IF ff.err # Nil /\ ff.err = ErrMissingFile
    THEN answerGenerated(w, Generate(qrCode, req.encoder))
    ELSE uploaded(w, req, qrCode, UploadFile(ff.file),
                  <<[fn |-> "UploadFile", nilFile |-> ff.file.isNil]>>)

\* HandleRequest once strconv.Atoi returned qrCodeSize: content is not empty.
handleSized(w, req, qrCodeSize) ==
    IF qrCodeSize.err # Nil \/ req.size = <<>>
    THEN badRequest(w, "Could not determine the desired QR code size.", <<>>)
    ELSE handleValid(w, req, [Content |-> req.content, Size |-> qrCodeSize.n], FormFile(req))

\* HandleRequest(writer, request): the whole handler. A panic ends it; the
\* server then closes the connection with whatever the writer had sent.
handle(req) ==
    IF req.content = ""
    THEN badRequest(HeaderSet(NewWriter, "application/json"),
                    "Could not determine the desired QR code content.", <<>>)
    ELSE handleSized(HeaderSet(NewWriter, "application/json"), req, Atoi(req.size))

HandleRequest(req) ==
    /\ request = NoRequest
    /\ request' = req
    /\ \E done \in {handle(req)} :
          /\ response' = [writer |-> done.w, panicked |-> done.panic]
          /\ calls' = done.calls
    /\ UNCHANGED <<blendIn, blendOut>>

\* One call of addWatermark.
CallAddWatermark(qrCode, watermarkData) ==
    /\ ~blendIn.called
    /\ blendIn' = [called |-> TRUE, qrCode |-> qrCode, watermarkData |-> watermarkData]
    /\ blendOut' = addWatermark(qrCode, watermarkData)
    /\ UNCHANGED <<request, response, calls>>

Init ==
    /\ request = NoRequest
    /\ response = [writer |-> NewWriter, panicked |-> FALSE]
    /\ calls = <<>>
    /\ blendIn = NoCall
    /\ blendOut = BlendFailed(Nil, <<>>, NoImage)

Next == \E req \in Requests : HandleRequest(req)
Spec == Init /\ [][Next]_vars

NextBlend == \E in \in BlendInputs : CallAddWatermark(in[1], in[2])
SpecBlend == Init /\ [][NextBlend]_vars

----------------------------------------------------------------------------
(* What the claims speak of.                                               *)

Handled == request # NoRequest
\* The request's content is not empty and its size parses as an integer.
ValidFields == request.content # "" /\ Atoi(request.size).err = Nil
Called(fn) == \E i \in 1..Len(calls) : calls[i].fn = fn
\* The response carries an error message.
ErrorAnswer ==
    /\ Len(response.writer.body) > 0
    /\ response.writer.body[1].kind = "json"

Blended == blendIn.called /\ blendOut.err = Nil
Did(step) == \E i \in 1..Len(blendOut.steps) : blendOut.steps[i] = step
\* The decoded base, the overlay as drawn, and the image in the returned bytes.
BaseOf == blendOut.qrCodeData
DrawnOf == blendOut.watermarkImage
OutOf == blendOut.out.img
\* Where the claims place the overlay's top-left corner (the same on both axes).
CornerOf == (BaseOf.w \div 2) - (DrawnOf.w \div 2)
\* Canvas pixel (x, y) lies under a pixel of the placed overlay whose alpha is not 0.
Covered(x, y) ==
    /\ InRect(x - CornerOf, y - CornerOf, Bounds(DrawnOf))
    /\ DrawnOf.px[y - CornerOf][x - CornerOf].a # 0

----------------------------------------------------------------------------
(* The claims.                                                             *)

\* C1: a request reaches the encoder only if its content is not empty and its
\* size parses as an integer greater than 0; every other request is answered
\* with status 400 and the encoder is not invoked for it.
C1_EncoderOnlyForPositiveSize ==
    Handled =>
        IF ValidFields /\ Atoi(request.size).n > 0 THEN TRUE
        ELSE response.writer.status = 400 /\ ~Called("qrcode.Encode")

\* C2: every error response has status 400 and a body that is a JSON object
\* with an "error" field holding the message.
C2_ErrorBodyIsErrorObject ==
    (Handled /\ ErrorAnswer) =>
        /\ response.writer.status = 400
        /\ Len(response.writer.body) = 1
        /\ response.writer.body[1].value.type = "object"
        /\ "error" \in DOMAIN response.writer.body[1].value.fields

\* C3: every successful response, without a watermark and with one, has status
\* 200, Content-Type image/png and nothing else, and the generator's PNG bytes
\* as its body.
C3_SuccessIsImagePng ==
    (Handled /\ response.writer.status = 200) =>
        /\ response.writer.sent = <<"image/png">>
        /\ response.writer.body =
              <<[kind |-> "bytes",
                 value |-> IF request.form = "missing" THEN request.encoder.png
                           ELSE addWatermark(request.encoder.png, request.watermark).out]>>

\* C4: an uploaded watermark whose bytes sniff to anything but image/png fails
\* the request with status 400 before the QR code is generated or anything is
\* decoded: GenerateWithWatermark is not reached.
C4_NonPngRejectedBeforeGenerate ==
    (/\ Handled /\ ValidFields
     /\ request.form = "file" /\ ~request.readErr
     /\ DetectContentType(request.watermark) # "image/png") =>
        /\ response.writer.status = 400
        /\ ~Called("GenerateWithWatermark")
        /\ ~Called("qrcode.Encode")

\* C10: a request with valid content and size gets exactly one response, of
\* status 200 or 400, whatever the extraction of the watermark form file gave,
\* and UploadFile is called only with a file, never with an absent one.
C10_OneAnswerAndNoAbsentFile ==
    (Handled /\ ValidFields) =>
        /\ response.writer.status \in {200, 400}
        /\ ~response.panicked
        /\ Len(response.writer.body) = 1
        /\ Called("UploadFile") => request.form = "file"
        /\ \A i \in 1..Len(calls) : calls[i].fn = "UploadFile" => ~calls[i].nilFile

\* C5: whenever addWatermark succeeds, for every base width W (W < 4 too), the
\* watermark drawn has width floor(W * 0.25), so at most a quarter of W.
C5_OverlayWidthIsQuarter ==
    Blended =>
        /\ DrawnOf.w = BaseOf.w \div 4
        /\ 4 * DrawnOf.w <= BaseOf.w

\* C7: when the target width is 0 (a base narrower than 4 pixels) the resize
\* signals an error and addWatermark fails, returning no image.
C7_ZeroWidthIsAnError ==
    (/\ blendIn.called /\ Did("resize watermark")
     /\ BaseOf.w \div 4 = 0) =>
        blendOut.err # Nil /\ blendOut.out = NoBytes

C8_BaseDecodedFirst ==
    blendIn.called =>
        /\ blendOut.steps[1] = "decode qrCode"
        /\ pngDecode(blendIn.qrCode).err # Nil =>
              /\ blendOut.err = "could not decode QR code: " \o pngDecode(blendIn.qrCode).err
              /\ blendOut.steps = <<"decode qrCode">>
        /\ (\/ pngDecode(blendIn.qrCode).err # Nil
            \/ pngDecode(blendIn.watermarkData).err # Nil
            \/ pngDecode(resizeWatermark(blendIn.watermarkData,
                                         pngDecode(blendIn.qrCode).img.w \div 4).bytes).err # Nil)
              => blendOut.err # Nil
        /\ blendOut.err # Nil =>
              /\ blendOut.out = NoBytes
              /\ ~Did("draw qrCode") /\ ~Did("draw watermark") /\ ~Did("encode")

\* C8's case: a base that does not decode, given with a watermark that would.
C8_Witness ==
    /\ blendIn.called
    /\ blendIn.qrCode = TruncatedPNG
    /\ pngDecode(blendIn.watermarkData).err = Nil
    /\ blendOut.err # Nil

\* C9: the image addWatermark returns has the base's bounds, and each of its
\* pixels that is not under an overlay pixel of non-zero alpha is the base's
\* pixel there; an overlay reaching beyond the canvas is cut off, not an error.
C9_CanvasKeepsBase ==
    Blended =>
        /\ Bounds(OutOf) = Bounds(BaseOf)
        /\ BaseOf = blendIn.qrCode.img
        /\ \A y \in 0..(BaseOf.h - 1) : \A x \in 0..(BaseOf.w - 1) :
              ~Covered(x, y) => OutOf.px[y][x] = BaseOf.px[y][x]

\* C9's case: a blend that succeeded with an overlay reaching beyond the canvas
\* on every side, one of its fully transparent pixels on the canvas.
C9_Witness ==
    /\ Blended
    /\ CornerOf < 0 /\ CornerOf + DrawnOf.w > BaseOf.w /\ CornerOf + DrawnOf.h > BaseOf.h
    /\ \E y \in 0..(BaseOf.h - 1) : \E x \in 0..(BaseOf.w - 1) :
          /\ InRect(x - CornerOf, y - CornerOf, Bounds(DrawnOf))
          /\ DrawnOf.px[y - CornerOf][x - CornerOf].a = 0
          /\ \E y2 \in 0..(BaseOf.h - 1) : \E x2 \in 0..(BaseOf.w - 1) :
                Covered(x2, y2) /\ OutOf.px[y2][x2] # BaseOf.px[y2][x2]

====
